---------------------------- MODULE Spec2Model ----------------------------
(***************************************************************************)
(* Hierarchical market clearing of openmod-tracker/assume.                 *)
(*                                                                         *)
(*  - the two-tier protocol of                                             *)
(*    assume/markets/clearing_algorithms/intermediate.py                   *)
(*    (PayAsClearIntermediateRole, PayAsClearIntermediateBidder);          *)
(*  - the merit-order walk of                                              *)
(*    mas4te/example_data/battery_market_demo.py                           *)
(*    (ClearingMarketOperator.clear_market).                               *)
(***************************************************************************)
EXTENDS Integers, Sequences, FiniteSets, TLC

VARIABLES
    \* ---- intermediate.py: the lower tier's agent context -------------
    upper,        \* context.data["wait_events"]["upper"]: 0 = key absent,
                  \* else the id of the asyncio.Future stored there
    futures,      \* futures[f] in {"pending","done"}: every Future created
    tasks,        \* tasks[r]: the clear_market coroutine scheduled by the
                  \* r-th opening(): [pc, fut, waited]
    all_orders,   \* context.data["all_orders"]
    content,      \* accepted_orders of the last ClearingMessage, as received
    content_obj,  \* the same list object after handle_market_feedback ran
    outcome,      \* how the last handle_market_feedback call ended
    calls,        \* handle_market_feedback calls since the last opening()
    injected,     \* history: per parent order, counter-orders appended to
                  \* all_orders since the last opening()
    \* ---- battery_market_demo.py: ClearingMarketOperator.clear_market ---
    submitted,       \* history: the orders of received_orderbooks, as received
    called_with,     \* history: the orders as the running call found them
    book,            \* all_orders: the order objects (mutated by the walk)
    supply,          \* sorted supply list: indices of order objects in book
    demand,          \* sorted demand list: indices of order objects in book
    supply_cursor,
    demand_cursor,
    clearing_price,  \* <<>> = None, <<p>> = price p
    matched_orders,
    cleared_results, \* self.cleared_results
    soc,             \* battery_unit.soc, in 1/100 MWh
    reports,         \* on_market_result calls the last clear_market call has
                     \* made: [agent, trades]
    wpc,             \* position in clear_market
    \* ---- intermediate.py: PayAsClearIntermediateBidder.formulate_bids --
    products,        \* the products argument
    accepted,        \* accepted orders returned by role.clear(...)
    rejected,        \* rejected orders returned by role.clear(...)
    rejected_orderbook, \* the list formulate_bids returns
    fpc              \* "called" or "returned"

protoVars == <<upper, futures, tasks, all_orders, content, content_obj,
               outcome, calls, injected>>

walkVars == <<submitted, called_with, book, supply, demand, supply_cursor, demand_cursor,
              clearing_price, matched_orders, cleared_results, soc, reports, wpc>>

bidVars == <<products, accepted, rejected, rejected_orderbook, fpc>>

vars == <<protoVars, walkVars, bidVars>>

-----------------------------------------------------------------------------
(* Bounds *)
MaxRounds == 2      \* openings of the lower market
MaxCalls == 2       \* feedback messages delivered between two openings
MaxBook == 3        \* length of all_orders

\* The round deadline of the timeout scenario, in round-ticks.
Deadline == 1

-----------------------------------------------------------------------------
(* Orders *)

\* The product window of the lower market (start_time, end_time, only_hours).
Product == [start_time |-> 0, end_time |-> 2, only_hours |-> "None"]

Order(p, v) ==
    [start_time |-> Product.start_time, end_time |-> Product.end_time,
     only_hours |-> Product.only_hours, price |-> p, volume |-> v]

Cleared(o, av, ap) ==
    [start_time |-> o.start_time, end_time |-> o.end_time,
     only_hours |-> o.only_hours, price |-> o.price, volume |-> o.volume,
     accepted_volume |-> av, accepted_price |-> ap]

\* Orders of the bidder that the upper market accepted (the accepted_orders of
\* a ClearingMessage): one partially accepted supply order, one fully accepted
\* demand order.
AcceptedPool == { Cleared(Order(3, 2), 1, 3), Cleared(Order(4, -2), -2, 3) }

\* An order a unit of the lower market submits.
UnitOrder == Order(1, 1)

\* accepted_orders lists each accepted order once.
Messages ==
    { m \in UNION { [1..n -> AcceptedPool] : n \in 0..Cardinality(AcceptedPool) } :
        \A i, j \in DOMAIN m : i # j => m[i] # m[j] }

-----------------------------------------------------------------------------
(* PayAsClearIntermediateBidder.handle_market_feedback *)

\* Mutant of CounterOrder: the volume is copied, not negated.
CounterOrder_NotNegated(order) ==
    [f \in (DOMAIN order) \ {"accepted_volume", "accepted_price"} |->
        IF f = "volume" THEN order.accepted_volume ELSE order[f]]

\* Lines 90-92: order["volume"] = -order["accepted_volume"], then both
\* accepted_* keys are popped.
CounterOrder(order) ==
    [f \in (DOMAIN order) \ {"accepted_volume", "accepted_price"} |->
        IF f = "volume" THEN 0 - order.accepted_volume ELSE order[f]]

\* Lines 88-93: the loop over content["accepted_orders"]; every order is
\* rewritten in place and the same object is appended to all_orders.
CounterOrders(msg) == [i \in 1..Len(msg) |-> CounterOrder(msg[i])]

\* Line 94: Future.set_result raises InvalidStateError on a done future; the
\* dict lookup raises KeyError before any opening().
\* Mutant of SetResult: a resolved Future is left alone without an error.
SetResult_Silent ==
    IF upper = 0
    THEN /\ outcome' = "KeyError"
         /\ UNCHANGED futures
    ELSE /\ outcome' = "ok"
         /\ futures' = [futures EXCEPT ![upper] = "done"]

SetResult ==
    IF upper = 0
    THEN /\ outcome' = "KeyError"
         /\ UNCHANGED futures
    ELSE IF futures[upper] = "done"
    THEN /\ outcome' = "InvalidStateError"
         /\ UNCHANGED futures
    ELSE /\ outcome' = "ok"
         /\ futures' = [futures EXCEPT ![upper] = "done"]

\* Mutant of HandleMarketFeedback: set_result inside the loop body, so the
\* Future is resolved after the first order and the loop is cut short.
HandleMarketFeedback_ReleaseInLoop(msg) ==
    /\ calls < MaxCalls
    /\ Len(all_orders) + Len(msg) <= MaxBook
    /\ content' = msg
    /\ content_obj' = [i \in 1..Len(msg) |->
                        IF i = 1 THEN CounterOrder(msg[i]) ELSE msg[i]]
    /\ all_orders' = all_orders \o (IF Len(msg) = 0 THEN <<>>
                                     ELSE <<CounterOrder(msg[1])>>)
    /\ IF Len(msg) = 0
       THEN UNCHANGED <<futures, outcome>>
       ELSE SetResult
    /\ calls' = calls + 1
    /\ injected' = [o \in AcceptedPool |->
                      injected[o] + IF Len(msg) > 0 /\ msg[1] = o THEN 1 ELSE 0]
    /\ UNCHANGED <<upper, tasks>>

\* Mutant of HandleMarketFeedback: the counter-orders are injected but the
\* Future is never resolved.
HandleMarketFeedback_NoRelease(msg) ==
    /\ calls < MaxCalls
    /\ Len(all_orders) + Len(msg) <= MaxBook
    /\ content' = msg
    /\ content_obj' = CounterOrders(msg)
    /\ all_orders' = all_orders \o CounterOrders(msg)
    /\ calls' = calls + 1
    /\ injected' = [o \in AcceptedPool |->
                      injected[o] + Cardinality({i \in DOMAIN msg : msg[i] = o})]
    /\ UNCHANGED <<upper, tasks, futures, outcome>>

HandleMarketFeedback(msg) ==
    /\ calls < MaxCalls
    /\ Len(all_orders) + Len(msg) <= MaxBook
    /\ content' = msg
    /\ content_obj' = CounterOrders(msg)
    /\ all_orders' = all_orders \o CounterOrders(msg)
    /\ SetResult
    /\ calls' = calls + 1
    /\ injected' = [o \in AcceptedPool |->
                      injected[o] + Cardinality({i \in DOMAIN msg : msg[i] = o})]
    /\ UNCHANGED <<upper, tasks>>

-----------------------------------------------------------------------------
(* PayAsClearIntermediateRole *)

\* Lines 29-31: a fresh Future replaces wait_events["upper"]; the inherited
\* opening() schedules this round's clear_market.  The next opening may come
\* before the clear_market of the round before it has started (closing and
\* next opening fall on the same timestamp in world_script_twostage.py), but
\* not before an older one has.
Opening ==
    /\ Len(tasks) < MaxRounds
    /\ \A r \in 1..Len(tasks) : r < Len(tasks) => tasks[r].pc # "scheduled"
    /\ futures' = Append(futures, "pending")
    /\ upper' = Len(futures) + 1
    /\ tasks' = Append(tasks, [pc |-> "scheduled", fut |-> 0, waited |-> 0])
    /\ calls' = 0
    /\ injected' = [o \in AcceptedPool |-> 0]
    /\ UNCHANGED <<all_orders, content, content_obj, outcome>>

\* Lines 36-37: the coroutine starts, reads wait_events["upper"] and awaits
\* that Future; awaiting a done Future does not suspend.
ClearMarketStart(r) ==
    /\ tasks[r].pc = "scheduled"
    /\ \A q \in 1..(r - 1) : tasks[q].pc # "scheduled"
    /\ tasks' = [tasks EXCEPT ![r] =
                   [pc |-> IF futures[upper] = "done" THEN "clearing" ELSE "waiting",
                    fut |-> upper, waited |-> 0]]
    /\ UNCHANGED <<upper, futures, all_orders, content, content_obj, outcome,
                   calls, injected>>

\* Line 37: the awaited Future is done, the coroutine resumes.
ClearMarketResume(r) ==
    /\ tasks[r].pc = "waiting"
    /\ futures[tasks[r].fut] = "done"
    /\ tasks' = [tasks EXCEPT ![r].pc = "clearing", ![r].waited = 0]
    /\ UNCHANGED <<upper, futures, all_orders, content, content_obj, outcome,
                   calls, injected>>

\* Line 39: super().clear_market(market_products).  The inherited method is
\* not among the sources; following the tier's lifecycle, the orders of the
\* round are consumed by the clearing.
ClearMarketFinish(r) ==
    /\ tasks[r].pc = "clearing"
    /\ tasks' = [tasks EXCEPT ![r].pc = "done"]
    /\ all_orders' = <<>>
    /\ UNCHANGED <<upper, futures, content, content_obj, outcome, calls, injected>>

\* A unit submits an order into the lower market's book.
Submit ==
    /\ Len(all_orders) < MaxBook
    /\ all_orders' = Append(all_orders, UnitOrder)
    /\ UNCHANGED <<upper, futures, tasks, content, content_obj, outcome, calls,
                   injected>>

\* A clear_market suspended on a pending Future; the time it has waited is
\* counted up to one tick past the deadline.
Ticking(r) ==
    /\ tasks[r].pc = "waiting"
    /\ futures[tasks[r].fut] = "pending"
    /\ tasks[r].waited <= Deadline

\* One round-tick passes while some clear_market is suspended on its await.
Tick ==
    /\ \E r \in 1..Len(tasks) : Ticking(r)
    /\ tasks' = [r \in 1..Len(tasks) |->
                   IF Ticking(r)
                   THEN [tasks[r] EXCEPT !.waited = @ + 1]
                   ELSE tasks[r]]
    /\ UNCHANGED <<upper, futures, all_orders, content, content_obj, outcome,
                   calls, injected>>

-----------------------------------------------------------------------------
(* battery_market_demo.py: ClearingMarketOperator.clear_market *)

MaxOrders == 3     \* orders in received_orderbooks
MaxRuns == 2       \* clear_market calls on the same received_orderbooks

Prices == {1, 2, 3}
Volumes == {-2, -1, 0, 1, 2}

\* Lines 191-200: the two units; an order's "node" is its unit's name.
Battery == "Battery1"
Load == "Demand1"

\* Lines 193, 206: capacity_mwh = 100.0, soc = 70.0, efficiency = 0.92,
\* in hundredths.
Capacity100 == 10000
InitialSoc100 == 7000
Efficiency100 == 92

None == <<>>

Min2(a, b) == IF a <= b THEN a ELSE b
Max2(a, b) == IF a >= b THEN a ELSE b

\* Lines 84-86: all_orders.extend(ob["orderbook"]) for every orderbook of
\* received_orderbooks, however many there are.
RECURSIVE Flatten(_)
Flatten(obs) ==
    IF obs = <<>> THEN <<>> ELSE Head(obs) \o Flatten(Tail(obs))

\* sorted(..., key=...) is stable: x goes behind every element whose key is
\* not greater than its own.
RECURSIVE InsertByKey(_, _, _, _)
InsertByKey(sorted, x, bk, sign) ==
    IF sorted = <<>> THEN <<x>>
    ELSE IF sign * bk[Head(sorted)].price <= sign * bk[x].price
         THEN <<Head(sorted)>> \o InsertByKey(Tail(sorted), x, bk, sign)
         ELSE <<x>> \o sorted

RECURSIVE SortedByPrice(_, _, _)
SortedByPrice(idx, bk, sign) ==
    IF idx = <<>> THEN <<>>
    ELSE InsertByKey(SortedByPrice(SubSeq(idx, 1, Len(idx) - 1), bk, sign),
                     idx[Len(idx)], bk, sign)

\* The indices i of bk, in order, with Keep(i).
RECURSIVE Filter(_, _, _)
Filter(bk, i, positive) ==
    IF i > Len(bk) THEN <<>>
    ELSE (IF (positive /\ bk[i].volume > 0) \/ (~positive /\ bk[i].volume < 0)
          THEN <<i>> ELSE <<>>) \o Filter(bk, i + 1, positive)

\* Lines 88-89.
SortedSupply(bk) == SortedByPrice(Filter(bk, 1, TRUE), bk, 1)
\* Mutant of SortedDemand: the demand orders by ascending price.
SortedDemand_Ascending(bk) == SortedByPrice(Filter(bk, 1, FALSE), bk, 1)

\* Lines 90-91: key = -price.
SortedDemand(bk) == SortedByPrice(Filter(bk, 1, FALSE), bk, -1)

\* Before clear_market is called; nothing received.
WalkIdle ==
    /\ submitted = <<>>
    /\ called_with = <<>>
    /\ book = <<>>
    /\ supply = <<>>
    /\ demand = <<>>
    /\ supply_cursor = 0
    /\ demand_cursor = 0
    /\ clearing_price = None
    /\ matched_orders = <<>>
    /\ cleared_results = <<>>
    /\ soc = InitialSoc100
    /\ reports = <<>>
    /\ wpc = "idle"

\* The worked scenario of the matching walk: two supply orders of the battery,
\* two demand orders of the load.
Fixture ==
    <<[node |-> Battery, price |-> 10, volume |-> 50],
      [node |-> Battery, price |-> 30, volume |-> 50],
      [node |-> Load, price |-> 40, volume |-> -60],
      [node |-> Load, price |-> 5, volume |-> -40]>>

\* received_orderbooks holds orders; clear_market has not been called yet.
Received(orders) ==
    /\ submitted = orders
    /\ called_with = <<>>
    /\ book = orders
    /\ supply = <<>>
    /\ demand = <<>>
    /\ supply_cursor = 0
    /\ demand_cursor = 0
    /\ clearing_price = None
    /\ matched_orders = <<>>
    /\ cleared_results = <<>>
    /\ soc = InitialSoc100
    /\ reports = <<>>
    /\ wpc = "received"

\* received_orderbooks for n orders, the first k of them the battery's: one
\* orderbook per unit operator that has sent orders.
Orderbooks(n, k, pv) ==
    LET batt == [i \in 1..k |->
                   [node |-> Battery, price |-> pv[i][1], volume |-> pv[i][2]]]
        load == [i \in 1..(n - k) |->
                   [node |-> Load, price |-> pv[k + i][1],
                    volume |-> pv[k + i][2]]]
    IN  (IF batt = <<>> THEN <<>> ELSE <<batt>>)
        \o (IF load = <<>> THEN <<>> ELSE <<load>>)

\* The orderbooks of the unit operators have been received.
WalkInit ==
    \/ \E n \in 0..MaxOrders : \E k \in 0..n :
         \E pv \in [1..n -> Prices \X Volumes] :
           Received(Flatten(Orderbooks(n, k, pv)))
    \/ Received(Flatten(<<SubSeq(Fixture, 1, 2), SubSeq(Fixture, 3, 4)>>))

\* Mutant of ClearMarketBegin: the price and the matches of the previous call
\* are kept instead of being reset.
ClearMarketBegin_StalePrice ==
    /\ wpc = "received"
    /\ supply' = SortedSupply(book)
    /\ demand' = SortedDemand(book)
    /\ supply_cursor' = 0
    /\ demand_cursor' = 0
    /\ called_with' = book
    /\ wpc' = "walk"
    /\ UNCHANGED <<submitted, book, cleared_results, soc, reports,
                   clearing_price, matched_orders>>

\* Lines 83-95.
ClearMarketBegin ==
    /\ wpc = "received"
    /\ supply' = SortedSupply(book)
    /\ demand' = SortedDemand(book)
    /\ supply_cursor' = 0
    /\ demand_cursor' = 0
    /\ clearing_price' = None
    /\ matched_orders' = <<>>
    /\ called_with' = book
    /\ wpc' = "walk"
    /\ UNCHANGED <<submitted, book, cleared_results, soc, reports>>

\* Line 97.
LoopCondition == supply_cursor < Len(supply) /\ demand_cursor < Len(demand)

CurS == supply[supply_cursor + 1]
CurD == demand[demand_cursor + 1]

\* Mutant of PairPrice: the lower of the two prices.
PairPrice_Min(s, d) == Min2(s.price, d.price)

\* Line 105.
PairPrice(s, d) == Max2(s.price, d.price)

\* Mutant of Traded: the larger of the two remaining volumes.
Traded_Max(s, d) == Max2(s.volume, 0 - d.volume)

\* Line 104.
Traded(s, d) == Min2(s.volume, 0 - d.volume)

\* Mutant of Tradeable: the comparison is turned around.
Tradeable_Flipped(s, d) == d.price <= s.price

\* Line 103.
Tradeable(s, d) == d.price >= s.price

\* Mutant of SupplyAfter: the supply order is not debited.
SupplyAfter_Kept(s, traded) == s.volume

\* Line 112: s["volume"] -= traded.
SupplyAfter(s, traded) == s.volume - traded

\* Mutant of DemandAfter: the demand order is debited like a supply order.
DemandAfter_Subtracted(d, traded) == d.volume - traded

\* Line 113: d["volume"] += traded.
DemandAfter(d, traded) == d.volume + traded

\* Lines 97-117: one iteration that trades.
WalkStep ==
    /\ wpc = "walk"
    /\ LoopCondition
    /\ LET s == book[CurS]
           d == book[CurD]
           traded == Traded(s, d)
       IN  /\ Tradeable(s, d)
           /\ clearing_price' = <<PairPrice(s, d)>>
           /\ matched_orders' = Append(matched_orders,
                  [seller |-> s.node, buyer |-> d.node, volume |-> traded,
                   price |-> PairPrice(s, d)])
           /\ book' = [book EXCEPT ![CurS].volume = SupplyAfter(s, traded),
                                   ![CurD].volume = DemandAfter(d, traded)]
           /\ supply_cursor' = IF SupplyAfter(s, traded) <= 0
                               THEN supply_cursor + 1 ELSE supply_cursor
           /\ demand_cursor' = IF DemandAfter(d, traded) >= 0
                               THEN demand_cursor + 1 ELSE demand_cursor
    /\ UNCHANGED <<submitted, called_with, supply, demand, cleared_results, soc,
                   reports, wpc>>

\* Lines 118-119: break.
WalkBreak ==
    /\ wpc = "walk"
    /\ LoopCondition
    /\ ~Tradeable(book[CurS], book[CurD])
    /\ wpc' = "result"
    /\ UNCHANGED <<submitted, called_with, book, supply, demand, supply_cursor,
                   demand_cursor,
                   clearing_price, matched_orders, cleared_results, soc, reports>>

\* Line 97: the loop condition fails.
WalkEnd ==
    /\ wpc = "walk"
    /\ ~LoopCondition
    /\ wpc' = "result"
    /\ UNCHANGED <<submitted, called_with, book, supply, demand, supply_cursor,
                   demand_cursor,
                   clearing_price, matched_orders, cleared_results, soc, reports>>

RECURSIVE DeltaSoc(_)
DeltaSoc(ms) ==
    IF ms = <<>> THEN 0
    ELSE DeltaSoc(SubSeq(ms, 1, Len(ms) - 1))
         - (IF ms[Len(ms)].seller = Battery THEN 100 * ms[Len(ms)].volume ELSE 0)
         + (IF ms[Len(ms)].buyer = Battery
            THEN ms[Len(ms)].volume * Efficiency100 ELSE 0)

\* Lines 121-141: the result is recorded, the battery's state of charge updated.
RecordResult ==
    /\ wpc = "result"
    /\ cleared_results' = Append(cleared_results,
           [clearing_price |-> clearing_price, matches |-> matched_orders])
    /\ soc' = Max2(0, Min2(Capacity100, soc + DeltaSoc(matched_orders)))
    /\ wpc' = "send"
    /\ UNCHANGED <<submitted, called_with, book, supply, demand, supply_cursor,
                   demand_cursor,
                   clearing_price, matched_orders, reports>>

\* Lines 144-151: per_agent_results, keys in order of first insertion.
RECURSIVE AgentsOf(_)
AgentsOf(ms) ==
    IF ms = <<>> THEN <<>>
    ELSE LET before == AgentsOf(SubSeq(ms, 1, Len(ms) - 1))
             m == ms[Len(ms)]
             has(seq, a) == \E i \in DOMAIN seq : seq[i] = a
             withS == IF has(before, m.seller) THEN before
                      ELSE Append(before, m.seller)
         IN  IF has(withS, m.buyer) THEN withS ELSE Append(withS, m.buyer)

RECURSIVE TradesOf(_, _)
TradesOf(ms, a) ==
    IF ms = <<>> THEN <<>>
    ELSE LET m == Head(ms)
         IN  (IF m.seller = a
              THEN <<[volume |-> 0 - m.volume, price |-> m.price]>> ELSE <<>>)
             \o (IF m.buyer = a
                 THEN <<[volume |-> m.volume, price |-> m.price]>> ELSE <<>>)
             \o TradesOf(Tail(ms), a)

\* Lines 153-156: on_market_result(trades) for the agents of the matches, in
\* the order of per_agent_results, that the world finds and that have the
\* method; found = the names of those agents.
Notified(ms, found) == SelectSeq(AgentsOf(ms), LAMBDA a : a \in found)

\* Lines 143-158.  What world.get_agent(agent_name) returns for a unit's name
\* is not decided by clear_market: any set of names may be found.
SendResults ==
    /\ wpc = "send"
    /\ \E found \in SUBSET {Battery, Load} :
          reports' = [i \in 1..Len(Notified(matched_orders, found)) |->
                        [agent |-> Notified(matched_orders, found)[i],
                         trades |-> TradesOf(matched_orders,
                                             Notified(matched_orders, found)[i])]]
    /\ wpc' = "returned"
    /\ UNCHANGED <<submitted, called_with, book, supply, demand, supply_cursor,
                   demand_cursor,
                   clearing_price, matched_orders, cleared_results, soc>>

\* clear_market is called again: received_orderbooks still holds the same
\* order objects, as the walk left them.
ClearMarketAgain ==
    /\ wpc = "returned"
    /\ Len(cleared_results) < MaxRuns
    /\ reports' = <<>>
    /\ wpc' = "received"
    /\ UNCHANGED <<submitted, called_with, book, supply, demand, supply_cursor,
                   demand_cursor, clearing_price, matched_orders,
                   cleared_results, soc>>

-----------------------------------------------------------------------------
(* PayAsClearIntermediateBidder.formulate_bids *)

MaxOut == 2        \* length of each list role.clear returns

\* Line 77: abs(remaining) > 1.
ResidualThreshold == 1

\* A second product window, after Product.
Product2 == [start_time |-> 2, end_time |-> 4, only_hours |-> "None"]

AllProducts == {Product, Product2}

OrderAt(prod, p, v) ==
    [start_time |-> prod.start_time, end_time |-> prod.end_time,
     only_hours |-> prod.only_hours, price |-> p, volume |-> v]

\* Line 68: market_getter.
ProductOf(order) ==
    [start_time |-> order.start_time, end_time |-> order.end_time,
     only_hours |-> order.only_hours]

\* What role.clear may return as accepted: orders with a non-zero
\* accepted_volume of the order's sign, at most the order's volume.
AcceptedOut ==
    { Cleared(OrderAt(prod, 1, va[1]), va[2], 1) :
        prod \in AllProducts, va \in {<<3, 1>>, <<3, 2>>, <<3, 3>>, <<-3, -1>>} }

\* What role.clear may return as rejected: orders with accepted_volume 0.
RejectedOut ==
    { Cleared(OrderAt(prod, 1, v), 0, 0) : prod \in AllProducts, v \in {-3, 2} }

SeqsUpTo(S, n) == UNION { [1..k -> S] : k \in 0..n }

ProductLists == { <<Product>>, <<Product, Product2>> }

Abs(x) == IF x < 0 THEN 0 - x ELSE x

InProducts(prod, prods) == \E i \in DOMAIN prods : prods[i] = prod

\* Lines 68-71: the rejected orders whose product is among the requested ones.
RECURSIVE RejectedOfProducts(_, _)
RejectedOfProducts(rej, prods) ==
    IF rej = <<>> THEN <<>>
    ELSE (IF InProducts(ProductOf(Head(rej)), prods) THEN <<Head(rej)>> ELSE <<>>)
         \o RejectedOfProducts(Tail(rej), prods)

\* Mutant of Significant: the residual is tested without abs().
Significant_NoAbs(remaining) == remaining > ResidualThreshold

\* Line 77.
Significant(remaining) == Abs(remaining) > ResidualThreshold

\* Lines 75-81: a copy of every accepted order with a significant residual,
\* its volume set to the residual.
RECURSIVE Residuals(_)
Residuals(acc) ==
    IF acc = <<>> THEN <<>>
    ELSE LET order == Head(acc)
             remaining == order.volume - order.accepted_volume
         IN  (IF Significant(remaining)
              THEN <<[order EXCEPT !.volume = remaining]>> ELSE <<>>)
             \o Residuals(Tail(acc))

\* Lines 51-84.
FormulateBids(acc, rej, prods) == RejectedOfProducts(rej, prods) \o Residuals(acc)

BidIdle ==
    /\ products = <<>>
    /\ accepted = <<>>
    /\ rejected = <<>>
    /\ rejected_orderbook = <<>>
    /\ fpc = "idle"

\* formulate_bids(market, products) has been called and role.clear has
\* returned (accepted, rejected, _, _).
BidInit ==
    /\ products \in ProductLists
    /\ accepted \in SeqsUpTo(AcceptedOut, MaxOut)
    /\ rejected \in SeqsUpTo(RejectedOut, MaxOut)
    /\ rejected_orderbook = <<>>
    /\ fpc = "called"

FormulateBidsReturn ==
    /\ fpc = "called"
    /\ rejected_orderbook' = FormulateBids(accepted, rejected, products)
    /\ fpc' = "returned"
    /\ UNCHANGED <<products, accepted, rejected>>

-----------------------------------------------------------------------------
\* setup(): wait_events = {}, nothing scheduled, an empty book.
ProtoInit ==
    /\ upper = 0
    /\ futures = <<>>
    /\ tasks = <<>>
    /\ all_orders = <<>>
    /\ content = <<>>
    /\ content_obj = <<>>
    /\ outcome = "none"
    /\ calls = 0
    /\ injected = [o \in AcceptedPool |-> 0]

Init == ProtoInit /\ WalkIdle /\ BidIdle

Next ==
    \/ Opening /\ UNCHANGED <<walkVars, bidVars>>
    \/ \E msg \in Messages : HandleMarketFeedback(msg) /\ UNCHANGED <<walkVars, bidVars>>
    \/ \E r \in 1..Len(tasks) : ClearMarketStart(r) /\ UNCHANGED <<walkVars, bidVars>>
    \/ \E r \in 1..Len(tasks) : ClearMarketResume(r) /\ UNCHANGED <<walkVars, bidVars>>
    \/ \E r \in 1..Len(tasks) : ClearMarketFinish(r) /\ UNCHANGED <<walkVars, bidVars>>
    \/ Submit /\ UNCHANGED <<walkVars, bidVars>>
    \/ Tick /\ UNCHANGED <<walkVars, bidVars>>

\* The lower tier: openings, parent feedback, clearings.
Spec == Init /\ [][Next]_vars

InitWalk == ProtoInit /\ WalkInit /\ BidIdle

NextWalk ==
    \/ ClearMarketBegin /\ UNCHANGED <<protoVars, bidVars>>
    \/ WalkStep /\ UNCHANGED <<protoVars, bidVars>>
    \/ WalkBreak /\ UNCHANGED <<protoVars, bidVars>>
    \/ WalkEnd /\ UNCHANGED <<protoVars, bidVars>>
    \/ RecordResult /\ UNCHANGED <<protoVars, bidVars>>
    \/ SendResults /\ UNCHANGED <<protoVars, bidVars>>
    \/ ClearMarketAgain /\ UNCHANGED <<protoVars, bidVars>>

InitBids == ProtoInit /\ WalkIdle /\ BidInit

NextBids == FormulateBidsReturn /\ UNCHANGED <<protoVars, walkVars>>

\* One formulate_bids call on a result of role.clear.
SpecBids == InitBids /\ [][NextBids]_vars

\* One clear_market call of the demo's market operator on received orderbooks.
SpecWalk == InitWalk /\ [][NextWalk]_vars

\* The schedule of world_script_twostage.py as the parent keeps it: the upper
\* market clears inside every round of the lower market, so its feedback
\* comes once after each opening() and before the next one.
FeedbackOfRound(msg) ==
    /\ upper # 0
    /\ calls = 0
    /\ HandleMarketFeedback(msg)

OpeningAfterFeedback ==
    /\ upper # 0 => calls >= 1
    /\ Opening

\* The event loop runs a clear_market coroutine that is ready to run.
EventLoopStep ==
    \E r \in 1..Len(tasks) :
        ClearMarketStart(r) \/ ClearMarketResume(r) \/ ClearMarketFinish(r)

\* The parent delivers the feedback of the round.
FeedbackStep == \E msg \in Messages : FeedbackOfRound(msg)

\* A formulate_bids call for the upper market is under way next to the rounds
\* of the lower market.
InitLive == ProtoInit /\ WalkIdle /\ BidInit /\ Len(accepted) + Len(rejected) <= 1

NextLive ==
    \/ OpeningAfterFeedback /\ UNCHANGED <<walkVars, bidVars>>
    \/ FeedbackStep /\ UNCHANGED <<walkVars, bidVars>>
    \/ \E r \in 1..Len(tasks) : ClearMarketStart(r) /\ UNCHANGED <<walkVars, bidVars>>
    \/ \E r \in 1..Len(tasks) : ClearMarketResume(r) /\ UNCHANGED <<walkVars, bidVars>>
    \/ \E r \in 1..Len(tasks) : ClearMarketFinish(r) /\ UNCHANGED <<walkVars, bidVars>>
    \/ FormulateBidsReturn /\ UNCHANGED <<protoVars, walkVars>>

\* The lower tier with a parent that signals every round; the event loop runs
\* what is ready, the parent's feedback and formulate_bids are not held back.
SpecLive ==
    /\ InitLive
    /\ [][NextLive]_vars
    /\ WF_vars(EventLoopStep /\ UNCHANGED <<walkVars, bidVars>>)
    /\ WF_vars(FeedbackStep /\ UNCHANGED <<walkVars, bidVars>>)
    /\ WF_vars(FormulateBidsReturn /\ UNCHANGED <<protoVars, walkVars>>)

-----------------------------------------------------------------------------
(* Claims about the two-tier protocol *)

Rounds == 1..Len(tasks)

\* The Future installed by the r-th opening() has id r.
FutureOfRound(r) == r

\* C1: in every round, clear_market starts the underlying clearing only after
\* handle_market_feedback has resolved the Future that this round's opening()
\* installed.
C1_ClearingAfterOwnRoundSignal ==
    \A r \in Rounds :
        tasks[r].pc \in {"clearing", "done"} => futures[FutureOfRound(r)] = "done"

\* C2: a clear_market that got no parent signal does not stay suspended past
\* the round deadline (its round would have ended with UpstreamTimeout).
C2_NoWaitPastDeadline ==
    \A r \in Rounds :
        (tasks[r].pc = "waiting" /\ futures[tasks[r].fut] = "pending")
            => tasks[r].waited <= Deadline

\* C3: between one opening() and the next, no accepted order of the parent
\* contributes more than one counter-order to all_orders.
C3_InjectedAtMostOnce ==
    Len(tasks) >= 1 => \A o \in AcceptedPool : injected[o] <= 1

\* C4: the number of completed clear_market runs never exceeds the number of
\* parent signals (handle_market_feedback calls that resolved a Future).
C4_ClearsAtMostSignals ==
    Cardinality({r \in Rounds : tasks[r].pc = "done"})
        <= Cardinality({f \in DOMAIN futures : futures[f] = "done"})

\* C5: in the step that resolves the "upper" Future, every accepted order of
\* the feedback message has been appended to all_orders: the released child
\* finds the whole result of the parent in its book.
C5_InjectionBeforeRelease ==
    [][ (\E f \in DOMAIN futures : futures[f] = "pending" /\ futures'[f] = "done")
          => /\ Len(all_orders') - Len(all_orders) = Len(content')
             /\ \A i \in DOMAIN content' :
                  \E k \in (Len(all_orders) + 1)..Len(all_orders') :
                      all_orders'[k] = CounterOrder(content'[i]) ]_vars

\* A two-order message resolved the Future and a clear_market was released.
C5_Witness ==
    /\ outcome = "ok"
    /\ Len(content) = 2
    /\ \E r \in Rounds : tasks[r].pc = "clearing" /\ futures[tasks[r].fut] = "done"
    /\ Len(all_orders) >= 2

\* C7: every handle_market_feedback call appends, for each accepted order of
\* the message and in order, one counter-order: volume = -accepted_volume, no
\* accepted_volume and no accepted_price key, every other field as received;
\* the orders already in the book stay.
C7_CounterOrderShape ==
    [][ calls' = calls + 1
          => /\ Len(all_orders') = Len(all_orders) + Len(content')
             /\ SubSeq(all_orders', 1, Len(all_orders)) = all_orders
             /\ \A i \in DOMAIN content' :
                  LET o == content'[i]
                      c == all_orders'[Len(all_orders) + i]
                  IN  /\ c.volume = 0 - o.accepted_volume
                      /\ DOMAIN c = {"start_time", "end_time", "only_hours",
                                     "price", "volume"}
                      /\ \A f \in {"start_time", "end_time", "only_hours", "price"} :
                            c[f] = o[f] ]_vars

\* A unit order followed by the counter-orders of a two-order message.
C7_Witness ==
    /\ Len(content) = 2
    /\ Len(all_orders) = 3
    /\ all_orders[1] = UnitOrder
    /\ all_orders[2].volume = 0 - content[1].accepted_volume
    /\ all_orders[3].volume = 0 - content[2].accepted_volume

-----------------------------------------------------------------------------
(* Claims about the merit-order walk *)

\* What the walk has taken from order i so far: original minus remaining.
Taken(i) == submitted[i].volume - book[i].volume

RECURSIVE SumTaken(_, _)
SumTaken(n, positive) ==
    IF n = 0 THEN 0
    ELSE SumTaken(n - 1, positive)
         + (IF (positive /\ submitted[n].volume > 0)
               \/ (~positive /\ submitted[n].volume < 0)
            THEN Taken(n) ELSE 0)

Walked == wpc \in {"result", "send", "returned"}

\* C8: after every step of the walk, and at its end, the volume taken from
\* the supply orders equals the negated volume taken from the demand orders.
C8_VolumeBalance ==
    SumTaken(Len(book), TRUE) = 0 - SumTaken(Len(book), FALSE)

\* The walk has ended after two trades, one order partially filled.
C8_Witness ==
    /\ Walked
    /\ Len(matched_orders) = 2
    /\ SumTaken(Len(book), TRUE) = 2
    /\ \E i \in DOMAIN book : book[i].volume # 0 /\ Taken(i) # 0

\* C9: every match of one clear_market run, and every trade reported to a
\* participant, carries the reported clearing price.
C9_UniformPrice ==
    Walked =>
        /\ \A i \in DOMAIN matched_orders :
              <<matched_orders[i].price>> = clearing_price
        /\ \A i \in DOMAIN reports : \A j \in DOMAIN reports[i].trades :
              <<reports[i].trades[j].price>> = clearing_price

AcceptedSupply == {i \in DOMAIN book : submitted[i].volume > 0 /\ Taken(i) # 0}
AcceptedDemand == {i \in DOMAIN book : submitted[i].volume < 0 /\ Taken(i) # 0}

\* C10: a reported clearing price is at least the lowest price of a supply
\* order with accepted volume and at most the highest price of a demand order
\* with accepted volume.
C10_PriceMonotonicity ==
    (Walked /\ clearing_price # None) =>
        /\ AcceptedSupply # {} /\ AcceptedDemand # {}
        /\ \E i \in AcceptedSupply : submitted[i].price <= clearing_price[1]
        /\ \E j \in AcceptedDemand : clearing_price[1] <= submitted[j].price

\* A price strictly inside the accepted range: supply accepted at 1, demand
\* accepted at 3 and at 2, price 2 reported.
C10_Witness ==
    /\ Walked
    /\ clearing_price = <<2>>
    /\ \E i \in AcceptedSupply : submitted[i].price = 1
    /\ \E j \in AcceptedDemand : submitted[j].price = 3

-----------------------------------------------------------------------------
(* Claims about formulate_bids *)

RECURSIVE SumAbsVolume(_, _)
SumAbsVolume(orders, prod) ==
    IF orders = <<>> THEN 0
    ELSE (IF ProductOf(Head(orders)) = prod THEN Abs(Head(orders).volume) ELSE 0)
         + SumAbsVolume(Tail(orders), prod)

\* Total |volume - accepted_volume| of the orders of product prod whose
\* residual is larger than least in magnitude.
RECURSIVE SumResidual(_, _, _)
SumResidual(orders, prod, least) ==
    IF orders = <<>> THEN 0
    ELSE LET o == Head(orders)
             res == Abs(o.volume - o.accepted_volume)
         IN  (IF ProductOf(o) = prod /\ res > least THEN res ELSE 0)
             + SumResidual(Tail(orders), prod, least)

RequestedProducts == {products[i] : i \in DOMAIN products}

\* C6 as claimed: for every requested product, the returned |volume| equals the
\* rejected |volume| plus the whole unfilled residual of the accepted orders.
C6_Conservation ==
    fpc = "returned" =>
        \A prod \in RequestedProducts :
            SumAbsVolume(rejected_orderbook, prod)
                = SumAbsVolume(rejected, prod) + SumResidual(accepted, prod, 0)

\* C6 amended: ... plus the residual of those accepted orders whose residual
\* exceeds 1 in magnitude; smaller residuals are not returned.
C6_ConservationAboveThreshold ==
    fpc = "returned" =>
        \A prod \in RequestedProducts :
            SumAbsVolume(rejected_orderbook, prod)
                = SumAbsVolume(rejected, prod)
                  + SumResidual(accepted, prod, ResidualThreshold)

\* A rejected order, a supply residual of 2 and a demand residual of -2 of the
\* requested product were returned.
C6_Witness ==
    /\ fpc = "returned"
    /\ Len(rejected_orderbook) = 3
    /\ \E i \in DOMAIN rejected_orderbook : rejected_orderbook[i].volume = 0 - 2
    /\ \A i \in DOMAIN rejected_orderbook :
          ProductOf(rejected_orderbook[i]) = Product
    /\ SumAbsVolume(rejected_orderbook, Product) >= 6

-----------------------------------------------------------------------------
(* Claims about the worked scenario of the walk *)

\* The first clear_market call on the scenario's orders has recorded its result.
FixtureCleared == submitted = Fixture /\ Len(cleared_results) >= 1

\* The volumes taken from the four orders of the scenario: 50 of 50, 10 of 50,
\* all 60 of the demand at 40, nothing of the demand at 5; zero net.
FixtureVolumes ==
    /\ Taken(1) = 50
    /\ Taken(2) = 10
    /\ Taken(3) = 0 - 60
    /\ Taken(4) = 0
    /\ Taken(1) + Taken(2) + Taken(3) + Taken(4) = 0

FixtureMatch(vol, p) ==
    [seller |-> Battery, buyer |-> Load, volume |-> vol, price |-> p]

\* C11 as claimed: on the scenario the walk trades 50 units at price 40, then
\* 10 units at price 30, and reports the clearing price 30; the accepted
\* volumes are 50/50 and 10/50 and sum to zero net.
C11_FixtureAsClaimed ==
    FixtureCleared =>
        /\ cleared_results[1].matches = <<FixtureMatch(50, 40), FixtureMatch(10, 30)>>
        /\ cleared_results[1].clearing_price = <<30>>
        /\ FixtureVolumes

\* C11 amended: on the scenario the walk trades 50 units at price 40, then 10
\* units again at price 40 (the higher price of the pair 30/40), and reports
\* the clearing price 40; the accepted volumes are 50/50 and 10/50 and sum to
\* zero net.
C11_FixtureWalk ==
    FixtureCleared =>
        /\ cleared_results[1].matches = <<FixtureMatch(50, 40), FixtureMatch(10, 40)>>
        /\ cleared_results[1].clearing_price = <<40>>
        /\ FixtureVolumes

\* The call on the scenario has returned after its two trades.
C11_Witness ==
    /\ FixtureCleared
    /\ wpc = "returned"
    /\ Len(cleared_results) = 1
    /\ Len(matched_orders) = 2
    /\ book[2].volume = 40

-----------------------------------------------------------------------------
(* Claims about the result of a clear_market call *)

\* No supply order and demand order of bk can trade: there is no supply, or no
\* demand, or the highest demand price is below the lowest supply price.
NoFeasiblePair(bk) ==
    \A i, j \in DOMAIN bk :
        (bk[i].volume > 0 /\ bk[j].volume < 0) => bk[j].price < bk[i].price

\* C12: the reported clearing price is the price of the last matched pair; a
\* call on orders without a feasible pair reports no clearing price and no
\* matches, and the next call on the same orders reports the same.
C12_LastPairOrNone ==
    /\ (Walked /\ matched_orders # <<>>) =>
           clearing_price = <<matched_orders[Len(matched_orders)].price>>
    /\ (Walked /\ NoFeasiblePair(called_with)) =>
           (clearing_price = None /\ matched_orders = <<>>)
    /\ \A k \in 1..(Len(cleared_results) - 1) :
           (cleared_results[k].matches = <<>>) =>
               cleared_results[k + 1] = cleared_results[k]
    /\ \A k \in DOMAIN cleared_results :
           (cleared_results[k].matches = <<>>) =
               (cleared_results[k].clearing_price = None)

\* Two calls on a supply order and a cheaper demand order have returned.
C12_Witness ==
    /\ wpc = "returned"
    /\ Len(cleared_results) = 2
    /\ cleared_results[1].matches = <<>>
    /\ Len(supply) > 0
    /\ Len(demand) > 0

-----------------------------------------------------------------------------
(* Claims about the settlement notifications *)

\* The participants of a call: the units with an order of non-zero volume
\* among the orders the call found.
Participants ==
    {called_with[i].node : i \in {j \in DOMAIN called_with :
                                      called_with[j].volume # 0}}

\* The on_market_result calls the last clear_market call made to agent a.
NotificationsTo(a) == {i \in DOMAIN reports : reports[i].agent = a}

\* C13: when a clear_market call has returned, every participant with an order
\* in the market has been notified exactly once, also a participant none of
\* whose orders were matched.
C13_EveryParticipantNotifiedOnce ==
    wpc = "returned" =>
        \A a \in Participants : Cardinality(NotificationsTo(a)) = 1

-----------------------------------------------------------------------------
(* Claims about repeated signals and overlapping rounds *)

\* C14: a handle_market_feedback call that finds the round's "upper" Future
\* already resolved ends in an error (InvalidStateError) and releases nothing:
\* no Future and no clear_market task changes.
C14_SecondSignalFails ==
    [][(calls' = calls + 1 /\ upper # 0 /\ futures[upper] = "done") =>
          (outcome' = "InvalidStateError" /\ futures' = futures /\ tasks' = tasks)]_vars

\* The second feedback call of a round has failed on the resolved Future.
C14_Witness ==
    /\ calls = 2
    /\ upper # 0
    /\ futures[upper] = "done"
    /\ outcome = "InvalidStateError"

\* C16: the clear_market scheduled by the r-th opening() waits on, and is
\* released by, the Future of the r-th opening() only, also when the next
\* opening() comes before it has started to wait.
C16_ReleasedByOwnRoundOnly ==
    \A r \in Rounds :
        tasks[r].pc \in {"waiting", "clearing", "done"} =>
            tasks[r].fut = FutureOfRound(r)

-----------------------------------------------------------------------------
(* Claims about the walk itself *)

InWalk == wpc \in {"walk", "result", "send", "returned"}

\* The orders submitted with volume zero.
ZeroVolumeOrders == {i \in DOMAIN submitted : submitted[i].volume = 0}

InList(list, i) == \E n \in DOMAIN list : list[n] = i

\* C15: an order of zero volume has been rejected before matching starts (it
\* is not among the orders the call matches on), it is in neither the supply
\* nor the demand list, and no volume is ever matched to it.
C15_ZeroVolumeRejected ==
    InWalk =>
        \A i \in ZeroVolumeOrders :
            /\ i \notin DOMAIN called_with
            /\ ~InList(supply, i)
            /\ ~InList(demand, i)
            /\ Taken(i) = 0

\* The orders both cursors have still to visit.
Remaining == (Len(supply) - supply_cursor) + (Len(demand) - demand_cursor)

\* The matched pair the walk has just added.
LastMatch == matched_orders[Len(matched_orders)]

\* C17: every iteration of the walk either stops it (when both lists still
\* have an order, only because the demand price is below the supply price), or
\* trades the smaller of the two remaining volumes and moves at least one
\* cursor past an order whose remaining volume has reached zero; the number of
\* orders still to visit falls with every trade and never below zero.
C17_EveryIterationProgresses ==
    [][wpc = "walk" =>
         \/ /\ wpc' = "result"
            /\ LoopCondition => book[CurD].price < book[CurS].price
            /\ UNCHANGED <<book, supply_cursor, demand_cursor, matched_orders>>
         \/ /\ wpc' = "walk"
            /\ LoopCondition
            /\ Len(matched_orders') = Len(matched_orders) + 1
            /\ LastMatch'.volume = Min2(book[CurS].volume, 0 - book[CurD].volume)
            /\ LastMatch'.volume > 0
            /\ Remaining' < Remaining
            /\ Remaining' >= 0
            /\ supply_cursor' \in {supply_cursor, supply_cursor + 1}
            /\ demand_cursor' \in {demand_cursor, demand_cursor + 1}
            /\ supply_cursor' # supply_cursor => book'[CurS].volume = 0
            /\ demand_cursor' # demand_cursor => book'[CurD].volume = 0
            /\ supply_cursor' = supply_cursor => book'[CurS].volume > 0
            /\ demand_cursor' = demand_cursor => book'[CurD].volume < 0
      ]_vars

\* The walk has come to its end after two trades, the supply used up and a
\* demand order left partially filled.
C17_Witness ==
    /\ wpc = "result"
    /\ Len(matched_orders) = 2
    /\ supply_cursor = Len(supply)
    /\ demand_cursor < Len(demand)
    /\ book[CurD].volume # submitted[CurD].volume

\* C18: in every state of the walk the volume matched to an order lies between
\* zero and the order's submitted volume, in the order's direction: a supply
\* order's remaining volume is never below zero, a demand order's never above.
C18_FillWithinBounds ==
    \A i \in DOMAIN book :
        /\ submitted[i].volume > 0 =>
               (0 <= book[i].volume /\ 0 <= Taken(i) /\ Taken(i) <= submitted[i].volume)
        /\ submitted[i].volume < 0 =>
               (book[i].volume <= 0 /\ Taken(i) <= 0 /\ submitted[i].volume <= Taken(i))
        /\ submitted[i].volume = 0 => Taken(i) = 0

\* In the middle of the walk a supply order is partially filled and a demand
\* order completely.
C18_Witness ==
    /\ wpc = "walk"
    /\ \E i, j \in DOMAIN book :
          /\ submitted[i].volume = 2
          /\ book[i].volume = 1
          /\ submitted[j].volume = 0 - 1
          /\ book[j].volume = 0

\* Order i has volume left.
Unfilled(i) == book[i].volume # 0

\* C19: when the walk has ended, no unfilled supply order and unfilled demand
\* order could still trade (demand price >= supply price); no supply order got
\* volume while a strictly cheaper supply order is unfilled; no demand order
\* got volume while a demand order with a strictly higher price is unfilled.
C19_MeritOrderRespected ==
    Walked =>
        \A i, j \in DOMAIN book :
            /\ (submitted[i].volume > 0 /\ submitted[j].volume < 0
                   /\ Unfilled(i) /\ Unfilled(j)) =>
                   book[j].price < book[i].price
            /\ (submitted[i].volume > 0 /\ submitted[j].volume > 0
                   /\ Taken(i) # 0 /\ Unfilled(j)) =>
                   book[j].price >= book[i].price
            /\ (submitted[i].volume < 0 /\ submitted[j].volume < 0
                   /\ Taken(i) # 0 /\ Unfilled(j)) =>
                   book[j].price <= book[i].price

\* The walk has ended with a filled and an unfilled demand order of different
\* prices and an unfilled supply order.
C19_Witness ==
    /\ wpc = "returned"
    /\ \E i, j, k \in DOMAIN book :
          /\ submitted[i].volume < 0
          /\ submitted[j].volume < 0
          /\ Taken(i) # 0
          /\ Unfilled(j)
          /\ book[j].price < book[i].price
          /\ submitted[k].volume > 0
          /\ Unfilled(k)

-----------------------------------------------------------------------------
(* Claims about the orders of the parent's result *)

\* C20: the orders of the parent's result are never changed in place: after
\* handle_market_feedback every order of the message's accepted_orders is as
\* it was received (volume, accepted_volume and accepted_price).  (The other
\* operation on the parent's result, formulate_bids, writes to a copy only.)
C20_ParentOrdersUnchanged == content_obj = content

-----------------------------------------------------------------------------
(* Claims about wake-ups and progress of the lower tier *)

\* The clear_market of round r is suspended on a Future nobody has resolved.
Blocked(r) ==
    /\ tasks[r].pc = "waiting"
    /\ futures[tasks[r].fut] = "pending"

\* C21: no lost wake-up: once the parent's feedback for round r has resolved
\* the Future of round r, the clear_market of round r is not blocked, whether
\* the signal came before it started to wait or after.
C21_NoLostWakeUp ==
    \A r \in Rounds :
        futures[FutureOfRound(r)] = "done" => ~Blocked(r)

\* The clear_market of round r has been scheduled / has completed.
Scheduled(r) == Len(tasks) >= r
Completed(r) == Len(tasks) >= r /\ tasks[r].pc = "done"

\* C22: formulate_bids returns whatever the state of the "upper" Future, and
\* when the parent delivers its feedback once after each opening(), every
\* clear_market that has been scheduled eventually completes.
C22_EveryClearMarketCompletes ==
    /\ [](fpc = "called" => ENABLED (FormulateBidsReturn /\ UNCHANGED <<protoVars, walkVars>>))
    /\ \A r \in 1..MaxRounds : Scheduled(r) ~> Completed(r)

\* formulate_bids has returned while a clear_market still waits for the
\* parent's signal.
C22_Witness ==
    /\ fpc = "returned"
    /\ \E r \in Rounds : Blocked(r)

-----------------------------------------------------------------------------
(* Claims about the products of the orders sent upwards *)

=============================================================================
